---- MODULE Spec2Model ----
(***************************************************************************)
(* DaisyUI theme widgets of react-jsonschema-form: FileWidget,             *)
(* BaseInputTemplate, TextareaWidget and SelectWidget, modelled as state   *)
(* machines driven by DOM events, FileReader completions and promise       *)
(* reactions.                                                              *)
(***************************************************************************)
EXTENDS Integers, Sequences, FiniteSets, TLC

(* ---------- bounds ---------- *)
MaxSelections == 2
MaxFiles == 2
MaxTextLen == 2
MaxOptions == 2

VARIABLES
  schemaType,     \* FileWidget prop schema.type
  optMultiple,    \* FileWidget prop options.multiple
  isLoading,      \* FileWidget useState(false)
  selections,     \* one entry per change event received: its files and the Promise.all values
  calls,          \* onChange calls made by FileWidget, in order
  logged,         \* console.error calls made by FileWidget, in order
  txtWidget,      \* which text component is mounted: BaseInputTemplate or TextareaWidget
  txtValue,       \* prop value
  txtMax,         \* prop options.maxByteLength
  txtEmpty,       \* prop options.emptyValue
  txtOverride,    \* whether prop onChangeOverride is supplied
  txtEvent,       \* target.value of the last change event
  txtCalls,       \* onChange calls made by the last change event
  txtOverrideCalls, \* onChangeOverride calls made by the last change event
  selEnum,        \* SelectWidget prop options.enumOptions
  selExamples,    \* SelectWidget prop schema.examples
  selMultiple,    \* SelectWidget prop multiple
  selEmpty,       \* SelectWidget prop options.emptyValue
  selEvent,       \* last change event of the select element
  selCalls        \* onChange calls made by the last change event

fileVars == <<schemaType, optMultiple, isLoading, selections, calls, logged>>

textVars == <<txtWidget, txtValue, txtMax, txtEmpty, txtOverride, txtEvent, txtCalls, txtOverrideCalls>>

selectVars == <<selEnum, selExamples, selMultiple, selEmpty, selEvent, selCalls>>

vars == <<fileVars, textVars, selectVars>>

(* ---------- JavaScript values ---------- *)

Undefined == [t |-> "undefined", n |-> 0, s |-> <<>>]
Num(n) == [t |-> "number", n |-> n, s |-> <<>>]
Str(s) == [t |-> "string", n |-> 0, s |-> s]
Obj(n) == [t |-> "object", n |-> n, s |-> <<>>]

\* JavaScript truthiness
Truthy(v) ==
  CASE v.t = "undefined" -> FALSE
    [] v.t = "number" -> v.n # 0
    [] v.t = "string" -> v.s # <<>>
    [] OTHER -> TRUE

(* ---------- components that are not mounted ---------- *)

TextIdle ==
  /\ txtWidget = "input"
  /\ txtValue = Undefined
  /\ txtMax = Undefined
  /\ txtEmpty = Undefined
  /\ txtOverride = FALSE
  /\ txtEvent = Undefined
  /\ txtCalls = <<>>
  /\ txtOverrideCalls = <<>>

SelectIdle ==
  /\ selEnum = [defined |-> FALSE, opts |-> <<>>]
  /\ selExamples = [defined |-> FALSE, opts |-> <<>>]
  /\ selMultiple = FALSE
  /\ selEmpty = Undefined
  /\ selEvent = [kind |-> "none", index |-> <<>>, selected |-> <<>>]
  /\ selCalls = <<>>

(* ---------- FileWidget ---------- *)

\* a File object of a FileList: the widget never looks into it, so it is
\* identified by the change event that carried it and its place in the list
File(s, i) == [sel |-> s, pos |-> i]

NoFile == File(0, 0)

\* Array.from(event.target.files) of the s-th change event, carrying n files
FileList(s, n) == [i \in 1..n |-> File(s, i)]

\* FileReader.readAsDataURL result for a file
DataUrl(f) == [scheme |-> "data", body |-> f]

Pending == [state |-> "pending", url |-> DataUrl(NoFile)]
Failed == [state |-> "rejected", url |-> DataUrl(NoFile)]
Loaded(f) == [state |-> "fulfilled", url |-> DataUrl(f)]

\* the host passes neither disabled nor readonly
HostDisabled == FALSE

IsMulti(type, multiple) == type = "array" \/ multiple

\* variant: the input is not disabled while loading
InputDisabledIgnoringLoading(disabled, loading) == disabled

\* disabled={disabled || readonly || isLoading}
InputDisabled(disabled, loading) == disabled \/ loading

AnyRejected(values) == \E i \in 1..Len(values) : values[i].state = "rejected"
AnyPending(values) == \E i \in 1..Len(values) : values[i].state = "pending"

\* variant: results are stored in completion order (first free slot)
StoreResultInCompletionOrder(values, i, r) ==
  LET free == {j \in 1..Len(values) : values[j].state = "pending"}
      k == CHOOSE j \in free : \A m \in free : j <= m
  IN [values EXCEPT ![k] = r]

\* Promise.all: slot i of the values array receives the result of promise i
StoreResult(values, i, r) == [values EXCEPT ![i] = r]

\* variant: the aggregate fulfils as soon as one read has fulfilled
AnyFulfilledOrEmpty(values) ==
  Len(values) = 0 \/ \E i \in 1..Len(values) : values[i].state = "fulfilled"

\* variant: the aggregate fulfils once every read has settled (Promise.allSettled)
AllSettled(values) == ~AnyPending(values)

\* Promise.all fulfils when every promise has fulfilled
AllFulfilled(values) == \A i \in 1..Len(values) : values[i].state = "fulfilled"

Urls(values) == [i \in 1..Len(values) |-> values[i].url]

\* variant: the single-file branch is missing
ThenValueAlwaysArray(multi, dataUrls) == [kind |-> "array", urls |-> dataUrls]

\* the argument handed to onChange by the then-callback
ThenValue(multi, dataUrls) ==
  IF multi
    THEN [kind |-> "array", urls |-> dataUrls]
    ELSE IF Len(dataUrls) > 0
      THEN [kind |-> "string", urls |-> <<dataUrls[1]>>]
      ELSE [kind |-> "null", urls |-> <<>>]

FileIdle ==
  /\ schemaType = "string"
  /\ optMultiple = FALSE
  /\ isLoading = FALSE
  /\ selections = <<>>
  /\ calls = <<>>
  /\ logged = <<>>

FileWidgetInit ==
  /\ schemaType \in {"array", "string"}
  /\ optMultiple \in BOOLEAN
  /\ isLoading = FALSE
  /\ selections = <<>>
  /\ calls = <<>>
  /\ logged = <<>>

\* a promise reaction is queued as a microtask: the chained .catch of a
\* then-callback that threw runs before the event loop takes its next task
ReactionQueued == \E s \in 1..Len(selections) : selections[s].threw

\* handleChange with event.target.files === null: early return
ChangeEventNoFiles ==
  /\ ~ReactionQueued
  /\ ~InputDisabled(HostDisabled, isLoading)
  /\ Len(selections) < MaxSelections
  /\ selections' = Append(selections,
       [absent |-> TRUE,
        files |-> <<>>,
        multi |-> IsMulti(schemaType, optMultiple),
        values |-> <<>>,
        awaiting |-> FALSE,
        threw |-> FALSE])
  /\ UNCHANGED <<schemaType, optMultiple, isLoading, calls, logged, textVars, selectVars>>

\* handleChange with a file list: setIsLoading(true), one reader per file, Promise.all
ChangeEvent(n) ==
  /\ ~ReactionQueued
  /\ ~InputDisabled(HostDisabled, isLoading)
  /\ Len(selections) < MaxSelections
  /\ isLoading' = TRUE
  /\ selections' = Append(selections,
       [absent |-> FALSE,
        files |-> FileList(Len(selections) + 1, n),
        multi |-> IsMulti(schemaType, optMultiple),
        values |-> [i \in 1..n |-> Pending],
        awaiting |-> TRUE,
        threw |-> FALSE])
  /\ UNCHANGED <<schemaType, optMultiple, calls, logged, textVars, selectVars>>

\* reader.onload of file i of selection s
ReaderLoad(s, i) ==
  /\ ~ReactionQueued
  /\ selections[s].values[i].state = "pending"
  /\ selections' = [selections EXCEPT ![s].values =
       StoreResult(@, i, Loaded(selections[s].files[i]))]
  /\ UNCHANGED <<schemaType, optMultiple, isLoading, calls, logged, textVars, selectVars>>

\* reader.onerror of file i of selection s
ReaderError(s, i) ==
  /\ ~ReactionQueued
  /\ selections[s].values[i].state = "pending"
  /\ selections' = [selections EXCEPT ![s].values = StoreResult(@, i, Failed)]
  /\ UNCHANGED <<schemaType, optMultiple, isLoading, calls, logged, textVars, selectVars>>

\* .then callback of Promise.all: setIsLoading(false), then onChange, which is
\* the host's function and may throw; a throw rejects the promise then()
\* returned, to which the .catch is attached
ThenCallback(s, throws) ==
  /\ selections[s].awaiting
  /\ AllFulfilled(selections[s].values)
  /\ isLoading' = FALSE
  /\ calls' = Append(calls,
       [sel |-> s, latest |-> Len(selections),
        value |-> ThenValue(selections[s].multi, Urls(selections[s].values))])
  /\ selections' = [selections EXCEPT ![s].awaiting = FALSE, ![s].threw = throws]
  /\ UNCHANGED <<schemaType, optMultiple, logged, textVars, selectVars>>

\* .catch callback of dataUrlsPromise.then(...): runs when Promise.all rejected
\* and when the then-callback threw
CatchCallback(s) ==
  /\ \/ selections[s].awaiting /\ AnyRejected(selections[s].values)
     \/ selections[s].threw
  /\ isLoading' = FALSE
  /\ logged' = Append(logged, s)
  /\ selections' = [selections EXCEPT ![s].awaiting = FALSE, ![s].threw = FALSE]
  /\ UNCHANGED <<schemaType, optMultiple, calls, textVars, selectVars>>

NextFile ==
  \/ ChangeEventNoFiles
  \/ \E n \in 0..MaxFiles : ChangeEvent(n)
  \/ \E s \in 1..Len(selections) : \E i \in 1..Len(selections[s].files) : ReaderLoad(s, i)
  \/ \E s \in 1..Len(selections) : \E i \in 1..Len(selections[s].files) : ReaderError(s, i)
  \/ \E s \in 1..Len(selections) : \E throws \in BOOLEAN : ThenCallback(s, throws)
  \/ \E s \in 1..Len(selections) : CatchCallback(s)

InitFile == FileWidgetInit /\ TextIdle /\ SelectIdle

SpecFile == InitFile /\ [][NextFile]_vars

\* every started FileReader fires load or error
Reads ==
  \E s \in 1..Len(selections) : \E i \in 1..Len(selections[s].files) :
       ReaderLoad(s, i) \/ ReaderError(s, i)

\* every settled promise gets its reaction run
Callbacks ==
  \E s \in 1..Len(selections) :
    (\E throws \in BOOLEAN : ThenCallback(s, throws)) \/ CatchCallback(s)

FairSpecFile == SpecFile /\ WF_vars(Reads) /\ WF_vars(Callbacks)

(* ---------- FileWidget: properties ---------- *)

\* change events that carried a file list
Sels == {s \in 1..Len(selections) : ~selections[s].absent}
CallsFor(s) == {k \in 1..Len(calls) : calls[k].sel = s}
LogsFor(s) == {k \in 1..Len(logged) : logged[k] = s}
ExpectedUrls(s) == [i \in 1..Len(selections[s].files) |-> DataUrl(selections[s].files[i])]
Succeeded(s) == ~AnyPending(selections[s].values) /\ ~AnyRejected(selections[s].values)

\* C1: in multi-file mode a selection of N files whose reads all succeed is
\* reported by exactly one onChange call carrying an array of N data URLs, the
\* i-th being the encoding of the i-th selected file, whatever the order in
\* which the reads completed.
C1_MultiEmitsN ==
  \A s \in Sels : selections[s].multi =>
    /\ Cardinality(CallsFor(s)) <= 1
    /\ (Succeeded(s) /\ ~selections[s].awaiting) => Cardinality(CallsFor(s)) = 1
    /\ \A k \in CallsFor(s) :
         /\ calls[k].value.kind = "array"
         /\ Len(calls[k].value.urls) = Len(selections[s].files)
         /\ calls[k].value.urls = ExpectedUrls(s)

C1_Witness ==
  \E s \in Sels :
    /\ selections[s].multi
    /\ Len(selections[s].files) = 2
    /\ CallsFor(s) # {}

C2_Safe ==
  \A s \in Sels :
    /\ Cardinality(CallsFor(s)) <= 1
    /\ CallsFor(s) # {} => ~AnyPending(selections[s].values)

\* reads that succeeded stay succeeded and calls stay made, so "again and
\* again every fully read selection has been reported" says that each one is
\* eventually reported
C2_Live == []<>(\A s \in Sels : Succeeded(s) => CallsFor(s) # {})

\* C2: onChange is never called while a read of the selection is pending, it
\* is called at most once per selection, and a selection whose reads have all
\* succeeded is eventually reported.
C2_NotifyAfterAggregation == []C2_Safe /\ C2_Live

C2_Witness ==
  \E s \in Sels : Len(selections[s].files) = 2 /\ CallsFor(s) # {}

C3_Safe ==
  \A s \in Sels : AnyRejected(selections[s].values) =>
    /\ CallsFor(s) = {}
    /\ Cardinality(LogsFor(s)) <= 1
    /\ ~selections[s].awaiting => Cardinality(LogsFor(s)) = 1

C3_Step == logged' # logged => ~isLoading'

C3_Live == []<>(\A s \in Sels : AnyRejected(selections[s].values) => LogsFor(s) # {})

\* C3: a selection with a failed read is logged once, never reaches onChange
\* (whether the failure comes before or after the other reads finish), and
\* the catch callback resets the loading flag.
C3_FailureAbsorbed == []C3_Safe /\ [][C3_Step]_vars /\ C3_Live

C3_Witness ==
  \E s \in Sels :
    /\ Len(selections[s].files) = 2
    /\ selections[s].values[1].state = "fulfilled"
    /\ selections[s].values[2].state = "rejected"
    /\ LogsFor(s) # {}
    /\ ~isLoading

\* C4 as stated: whenever a read started by a change event is pending,
\* isLoading is true.
C4_Original ==
  (\E s \in Sels : AnyPending(selections[s].values)) => isLoading

C4_Safe == (\E s \in Sels : selections[s].awaiting) => isLoading

\* C4 (amended): isLoading is true from the acceptance of a change event until
\* the then/catch callback of that selection has run, and it always returns
\* to false.
C4_LoadingUntilSettled == []C4_Safe /\ []<>(~isLoading)

C4_Witness ==
  \E s \in Sels :
    /\ AnyPending(selections[s].values)
    /\ selections[s].awaiting
    /\ isLoading

C6_Safe ==
  /\ \A s \in 1..Len(selections) : selections[s].absent => CallsFor(s) = {}
  /\ \A s \in Sels : ~selections[s].multi =>
       /\ Cardinality(CallsFor(s)) <= 1
       /\ (Succeeded(s) /\ ~selections[s].awaiting) => Cardinality(CallsFor(s)) = 1
       /\ \A k \in CallsFor(s) :
            /\ calls[k].value.kind # "array"
            /\ IF Len(selections[s].files) = 0
                 THEN calls[k].value.kind = "null"
                 ELSE /\ calls[k].value.kind = "string"
                      /\ calls[k].value.urls = <<DataUrl(selections[s].files[1])>>

C6_Step ==
  (Len(selections') > Len(selections) /\ selections'[Len(selections')].absent)
    => (calls' = calls /\ isLoading' = isLoading)

\* C6: in single-file mode a selection whose reads all succeed is reported by
\* exactly one onChange call carrying the data URL of the first file, or null
\* for an empty list, never an array; a change event without a file list
\* calls nothing and leaves isLoading alone.
C6_SingleEmitsFirst == []C6_Safe /\ [][C6_Step]_vars

C6_Witness ==
  /\ \E s \in 1..Len(selections) : selections[s].absent
  /\ \E k \in 1..Len(calls) :
       /\ calls[k].value.kind = "string"
       /\ Len(selections[calls[k].sel].files) = 2

\* C9 as stated: at most one selection has reads in flight at any time.
C9_Original ==
  Cardinality({s \in Sels : AnyPending(selections[s].values)}) <= 1

\* C9 (amended): at most one selection is awaiting its then/catch callback at
\* any time, onChange calls arrive in selection order, and every call reports
\* the latest accepted selection.
C9_NoOverlapOfAggregates ==
  /\ Cardinality({s \in Sels : selections[s].awaiting}) <= 1
  /\ \A k \in 1..Len(calls) : calls[k].latest = calls[k].sel
  /\ \A j, k \in 1..Len(calls) : j < k => calls[j].sel < calls[k].sel

C9_Witness ==
  /\ Len(calls) = 1
  /\ \E s \in Sels : AnyPending(selections[s].values) /\ ~selections[s].awaiting

(* ---------- BaseInputTemplate and TextareaWidget ---------- *)

\* UTF-16 code units: "A", "e-acute", the euro sign, a high and a low surrogate
CodeUnits == {65, 233, 8364, 55357, 56832}

IsHighSurrogate(c) == c >= 55296 /\ c <= 56319
IsLowSurrogate(c) == c >= 56320 /\ c <= 57343

Texts == UNION {[1..n -> CodeUnits] : n \in 0..MaxTextLen}

MaxByteLengths == {Undefined, Num(0), Num(1), Num(3), Num(4)}

EmptyValues == {Undefined, Str(<<>>), Str(<<65>>)}

\* new TextEncoder().encode(s).length: a surrogate pair takes 4 bytes, a lone
\* surrogate is replaced by U+FFFD (3 bytes)
RECURSIVE Utf8Length(_)
Utf8Length(s) ==
  IF s = <<>> THEN 0
  ELSE LET c == Head(s) IN
    IF c < 128 THEN 1 + Utf8Length(Tail(s))
    ELSE IF c < 2048 THEN 2 + Utf8Length(Tail(s))
    ELSE IF IsHighSurrogate(c) /\ Len(s) >= 2 /\ IsLowSurrogate(s[2])
      THEN 4 + Utf8Length(Tail(Tail(s)))
      ELSE 3 + Utf8Length(Tail(s))

\* the number of characters of String(n) for an integer n
RECURSIVE DecimalLength(_)
DecimalLength(n) ==
  IF n < 0 THEN 1 + DecimalLength(0 - n)
  ELSE IF n < 10 THEN 1 ELSE 1 + DecimalLength(n \div 10)

\* encode(value): undefined takes the default argument "", any other value is
\* converted to a string first: a number to its decimal text, a plain object
\* to "[object Object]"
ByteLength(value) ==
  CASE value.t = "string" -> Utf8Length(value.s)
    [] value.t = "number" -> DecimalLength(value.n)
    [] value.t = "object" -> 15
    [] OTHER -> 0

\* variant: the limit is compared with >=
OverLimitInclusive(max, text) == Truthy(max) /\ Utf8Length(text) >= max.n

\* maxByteLength && new TextEncoder().encode(value).length > maxByteLength
OverLimit(max, text) == Truthy(max) /\ Utf8Length(text) > max.n

\* value === '' ? options.emptyValue : value
InputChangeArg(text, empty) == IF text = <<>> THEN empty ELSE Str(text)

\* {maxByteLength && (<div>{byteLength}/{maxByteLength}</div>)} of BaseInputTemplate
InputCounter(value, max) ==
  IF Truthy(max)
    THEN [kind |-> "counter", left |-> ByteLength(value), right |-> max.n]
    ELSE IF max.t = "number"
      THEN [kind |-> "text", left |-> max.n, right |-> 0]
      ELSE [kind |-> "none", left |-> 0, right |-> 0]

\* {maxByteLength && (<div>{byteLength}/{maxByteLength}</div>)} of TextareaWidget
TextareaCounter(value, max) ==
  IF Truthy(max)
    THEN [kind |-> "counter", left |-> ByteLength(value), right |-> max.n]
    ELSE IF max.t = "number"
      THEN [kind |-> "text", left |-> max.n, right |-> 0]
      ELSE [kind |-> "none", left |-> 0, right |-> 0]

Counter == IF txtWidget = "input" THEN InputCounter(txtValue, txtMax)
           ELSE TextareaCounter(txtValue, txtMax)

TextWidgetInit ==
  /\ txtWidget \in {"input", "textarea"}
  /\ txtValue \in {Undefined, Str(<<>>), Num(0), Num(12), Obj(1)}
  /\ txtMax \in MaxByteLengths
  /\ txtEmpty \in EmptyValues
  /\ txtOverride \in BOOLEAN
  /\ txtWidget = "textarea" => (txtOverride = FALSE /\ txtEmpty = Undefined)
  /\ txtEvent = Undefined
  /\ txtCalls = <<>>
  /\ txtOverrideCalls = <<>>

\* BaseInputTemplate: onChange={onChangeOverride || _onChange}, override supplied;
\* the host's override takes the text as the new value
InputChangeOverridden(text) ==
  /\ txtWidget = "input"
  /\ txtOverride
  /\ txtEvent' = Str(text)
  /\ txtOverrideCalls' = <<Str(text)>>
  /\ txtCalls' = <<>>
  /\ txtValue' = Str(text)
  /\ UNCHANGED <<txtWidget, txtMax, txtEmpty, txtOverride, fileVars, selectVars>>

\* BaseInputTemplate._onChange
InputChange(text) ==
  /\ txtWidget = "input"
  /\ ~txtOverride
  /\ txtEvent' = Str(text)
  /\ txtOverrideCalls' = <<>>
  /\ IF OverLimit(txtMax, text)
       THEN /\ txtCalls' = <<>>
            /\ txtValue' = txtValue
       ELSE /\ txtCalls' = <<InputChangeArg(text, txtEmpty)>>
            /\ txtValue' = InputChangeArg(text, txtEmpty)
  /\ UNCHANGED <<txtWidget, txtMax, txtEmpty, txtOverride, fileVars, selectVars>>

\* TextareaWidget.handleChange
TextareaChange(text) ==
  /\ txtWidget = "textarea"
  /\ txtEvent' = Str(text)
  /\ txtOverrideCalls' = <<>>
  /\ IF OverLimit(txtMax, text)
       THEN /\ txtCalls' = <<>>
            /\ txtValue' = txtValue
       ELSE /\ txtCalls' = <<Str(text)>>
            /\ txtValue' = Str(text)
  /\ UNCHANGED <<txtWidget, txtMax, txtEmpty, txtOverride, fileVars, selectVars>>

NextText ==
  \/ \E text \in Texts : InputChangeOverridden(text)
  \/ \E text \in Texts : InputChange(text)
  \/ \E text \in Texts : TextareaChange(text)

InitText == TextWidgetInit /\ FileIdle /\ SelectIdle

SpecText == InitText /\ [][NextText]_vars

(* ---------- text components: properties ---------- *)

\* C5: when maxByteLength is set the displayed counter is the remaining byte
\* length, maxByteLength minus the UTF-8 byte length of the value; when it is
\* not set no counter is displayed.
C5_RemainingBytes ==
  /\ txtMax.t = "undefined" => Counter.kind = "none"
  /\ Counter.kind = "counter" => Counter.left = txtMax.n - ByteLength(txtValue)

\* C7 as stated: the limit applies whenever maxByteLength is set.
C7_Original ==
  (txtWidget = "input" /\ txtEvent.t = "string") =>
    IF txtOverride
      THEN txtCalls = <<>> /\ txtOverrideCalls = <<txtEvent>>
      ELSE IF txtMax.t = "number" /\ Utf8Length(txtEvent.s) > txtMax.n
        THEN txtCalls = <<>>
        ELSE txtCalls = <<IF txtEvent.s = <<>> THEN txtEmpty ELSE txtEvent>>

\* C7 (amended): without onChangeOverride a change event with text v calls
\* onChange zero times if maxByteLength is a non-zero number smaller than the
\* UTF-8 byte length of v, and otherwise once, with emptyValue for the empty
\* string and with v otherwise; with onChangeOverride the override receives
\* the event and onChange is not called.
C7_InputChange ==
  (txtWidget = "input" /\ txtEvent.t = "string") =>
    IF txtOverride
      THEN txtCalls = <<>> /\ txtOverrideCalls = <<txtEvent>>
      ELSE /\ txtOverrideCalls = <<>>
           /\ IF txtMax.t = "number" /\ txtMax.n # 0 /\ Utf8Length(txtEvent.s) > txtMax.n
                THEN txtCalls = <<>>
                ELSE txtCalls = <<IF txtEvent.s = <<>> THEN txtEmpty ELSE txtEvent>>

C7_Witness ==
  /\ txtWidget = "input"
  /\ ~txtOverride
  /\ txtMax = Num(3)
  /\ txtEvent = Str(<<55357, 56832>>)
  /\ txtCalls = <<>>

(* ---------- SelectWidget ---------- *)

OptionValues == {Num(0), Num(1), Obj(1), Obj(2)}

ExampleValues == {Num(1), Num(2)}

SelectEmptyValues == {Undefined, Num(9)}

\* an array prop that may be absent
Absent == [defined |-> FALSE, opts |-> <<>>]
Array(items) == [defined |-> TRUE, opts |-> items]

EnumOptionLists ==
  {Absent} \cup
  {Array([i \in 1..Len(f) |-> [value |-> f[i]]]) :
     f \in UNION {[1..m -> OptionValues] : m \in 0..MaxOptions}}

ExampleLists ==
  {Absent} \cup {Array(f) : f \in UNION {[1..m -> ExampleValues] : m \in 0..MaxOptions}}

\* String(i) of a small index: one decimal digit
IndexToString(i) == <<48 + i>>

\* Number(text) of a digit string; Number("") is 0
ToNumber(text) == IF text = <<>> THEN 0 ELSE text[1] - 48

\* @rjsf/utils enumOptionsValueForIndex for a single index
EnumOptionsValueForIndex(valueIndex, allEnumOptions, emptyValue) ==
  LET index == IF valueIndex = <<>> THEN -1 ELSE ToNumber(valueIndex)
      options == IF allEnumOptions.defined THEN allEnumOptions.opts ELSE <<>>
  IN IF index >= 0 /\ index < Len(options) THEN options[index + 1].value ELSE emptyValue

\* enumOptions && enumOptions[0]?.value && typeof enumOptions[0].value === "object"
IsEnumeratedObject(enumOptions) ==
  /\ enumOptions.defined
  /\ Len(enumOptions.opts) >= 1
  /\ Truthy(enumOptions.opts[1].value)
  /\ enumOptions.opts[1].value.t = "object"

\* the options rendered: enumOptions, else one option per schema example
OptionsList(enumOptions, examples) ==
  IF enumOptions.defined THEN enumOptions.opts
  ELSE IF examples.defined
    THEN [i \in 1..Len(examples.opts) |-> [value |-> examples.opts[i]]]
    ELSE <<>>

\* the value handleChange computes for the option whose value attribute is text
ValueOfOption(text, enumOptions, emptyValue) ==
  IF IsEnumeratedObject(enumOptions)
    THEN enumOptions.opts[ToNumber(text) + 1].value
    ELSE EnumOptionsValueForIndex(IndexToString(ToNumber(text)), enumOptions, emptyValue)

\* the value handleChange computes in single mode for event.target.value
SingleValue(index, enumOptions, emptyValue) ==
  IF index = <<>> THEN emptyValue
  ELSE IF IsEnumeratedObject(enumOptions)
    THEN enumOptions.opts[ToNumber(index) + 1].value
    ELSE EnumOptionsValueForIndex(index, enumOptions, emptyValue)

\* event.target.selectedOptions: the selected options in document order
RECURSIVE SelectedOptions(_)
SelectedOptions(chosen) ==
  IF chosen = {} THEN <<>>
  ELSE LET least == CHOOSE i \in chosen : \A j \in chosen : i <= j
       IN <<IndexToString(least)>> \o SelectedOptions(chosen \ {least})

SelectWidgetInit ==
  /\ selEnum \in EnumOptionLists
  /\ selExamples \in ExampleLists
  /\ selMultiple \in BOOLEAN
  /\ selEmpty \in SelectEmptyValues
  /\ selEvent = [kind |-> "none", index |-> <<>>, selected |-> <<>>]
  /\ selCalls = <<>>

\* handleChange, single mode: the placeholder ("") or option i was chosen
SelectSingle(index) ==
  /\ ~selMultiple
  /\ selEvent' = [kind |-> "single", index |-> index, selected |-> <<>>]
  /\ selCalls' = <<[kind |-> "single", vals |-> <<SingleValue(index, selEnum, selEmpty)>>]>>
  /\ UNCHANGED <<selEnum, selExamples, selMultiple, selEmpty, fileVars, textVars>>

\* handleChange, multiple mode: the set of selected options changed
SelectMultiple(chosen) ==
  /\ selMultiple
  /\ LET selectedOptions == SelectedOptions(chosen) IN
       /\ selEvent' = [kind |-> "multiple", index |-> <<>>, selected |-> selectedOptions]
       /\ selCalls' = <<[kind |-> "array",
                         vals |-> [j \in 1..Len(selectedOptions) |->
                                     ValueOfOption(selectedOptions[j], selEnum, selEmpty)]]>>
  /\ UNCHANGED <<selEnum, selExamples, selMultiple, selEmpty, fileVars, textVars>>

RenderedIndexes == 0..(Len(OptionsList(selEnum, selExamples)) - 1)

NextSelect ==
  \/ \E index \in {<<>>} \cup {IndexToString(i) : i \in RenderedIndexes} : SelectSingle(index)
  \/ \E chosen \in SUBSET RenderedIndexes : SelectMultiple(chosen)

InitSelect == SelectWidgetInit /\ FileIdle /\ TextIdle

SpecSelect == InitSelect /\ [][NextSelect]_vars

(* ---------- SelectWidget: properties ---------- *)

DisplayedValue(text) == OptionsList(selEnum, selExamples)[ToNumber(text) + 1].value

\* C8: choosing option i of the rendered list (enumOptions, or schema.examples
\* when enumOptions is absent) calls onChange once with the value of that
\* option, choosing the placeholder calls it with emptyValue, and in multiple
\* mode a change with k selected options calls it once with the k values of
\* the selected options in option order.
C8_SelectionIsDisplayedValue ==
  /\ selEvent.kind = "single" =>
       selCalls = <<[kind |-> "single",
                     vals |-> <<IF selEvent.index = <<>> THEN selEmpty
                                ELSE DisplayedValue(selEvent.index)>>]>>
  /\ selEvent.kind = "multiple" =>
       selCalls = <<[kind |-> "array",
                     vals |-> [j \in 1..Len(selEvent.selected) |->
                                 DisplayedValue(selEvent.selected[j])]]>>

====
